---- MODULE Spec2Model ----
(***************************************************************************)
(* Model of the cached-struct crate: a value of type T kept in memory by a *)
(* Cached<T> handle and synchronised with one file through the file's      *)
(* modification time (src/src/lib.rs), with the Accounts codec of the      *)
(* example (src/examples/accounts.rs) as the Cache implementation.         *)
(*                                                                         *)
(* One file system path is modelled, shared by two handles and by an       *)
(* external writer.  Time is an integer; UNIX_EPOCH is 0.  The system      *)
(* clock always reads a time after the epoch, but a file's modification    *)
(* time can be set to any representable time (utimes, archive extraction). *)
(***************************************************************************)
EXTENDS Integers, Sequences, FiniteSets, TLC

\* ---------------------------------------------------------------- bounds
\* Latest time the system clock reaches.
MaxTime == 2

\* SystemTime::UNIX_EPOCH, the value last_modified starts with.
UNIX_EPOCH == 0

\* The modification times a file can have: SystemTime represents times
\* before the epoch too.
Times == (UNIX_EPOCH - 1)..MaxTime

\* ------------------------------------------------- values (Accounts map)
\* A string is a sequence of tokens; an account name is a string.
Names == {<<"test">>}
\* The balances (i64) the model uses.
Balances == {-40, 7}

\* HashMap<String, i64>: a function from a set of names to balances.
Accounts == UNION {[D -> Balances] : D \in SUBSET Names}
EmptyMap == [n \in {} |-> 0]

\* HashMap::insert: the map with name bound to bal.
MapInsert(m, name, bal) ==
    [n \in DOMAIN m \cup {name} |-> IF n = name THEN bal ELSE m[n]]

\* Option<i64> as a sequence: <<>> is None, <<x>> is Some(x).
OldEntry(m, name) == IF name \in DOMAIN m THEN <<m[name]>> ELSE <<>>

\* --------------------------------------------------- codec (accounts.rs)
\* Display of an i64: one token holding its decimal digits.
FormatInt(bal) ==
    CASE bal = -40 -> "-40"
      [] bal = 7 -> "7"
      [] OTHER -> "?"

\* str::parse::<i64> of a token sequence: <<TRUE, n>> or <<FALSE, 0>>.
\* A leading plus sign is accepted; anything other than one number is not.
ParseInt(s) ==
    IF Len(s) # 1 THEN <<FALSE, 0>>
    ELSE CASE s[1] = "-40" -> <<TRUE, -40>>
           [] s[1] = "7" -> <<TRUE, 7>>
           [] s[1] = "+7" -> <<TRUE, 7>>
           [] OTHER -> <<FALSE, 0>>

\* format_args!("{}:{}\n", name, balance): one line of the file (without
\* its newline, which separates the lines of the content).
FormatLine(name, bal) == name \o <<":", FormatInt(bal)>>

\* All orders in which a HashMap may iterate over the keys in D.
Orders(D) ==
    {o \in [1..Cardinality(D) -> D] : \A i, j \in DOMAIN o : i # j => o[i] # o[j]}

\* Accounts::save writing the entries in iteration order o.
SaveIn(m, o) == [i \in DOMAIN o |-> FormatLine(o[i], m[o[i]])]

\* Accounts::save: every content it may write for m.
Accounts_save(m) == {SaveIn(m, o) : o \in Orders(DOMAIN m)}

\* str::trim: the string without leading and trailing whitespace.
RECURSIVE TrimStart(_)
TrimStart(s) == IF s # <<>> /\ Head(s) = " " THEN TrimStart(Tail(s)) ELSE s
RECURSIVE TrimEnd(_)
TrimEnd(s) ==
    IF s # <<>> /\ s[Len(s)] = " " THEN TrimEnd(SubSeq(s, 1, Len(s) - 1)) ELSE s
Trim(s) == TrimEnd(TrimStart(s))

\* str::rfind(':'): index of the last colon, 0 for None.
RFind(s) ==
    LET I == {i \in DOMAIN s : s[i] = ":"}
    IN IF I = {} THEN 0 ELSE CHOOSE i \in I : \A j \in I : j <= i

\* One iteration of the loop of Accounts::load on a line, starting from the
\* map acc: [ok, val].
LoadLine(acc, line) ==
    LET l == Trim(line)
        i == RFind(l)
        p == ParseInt(SubSeq(l, i + 1, Len(l)))
    IN IF i = 0 \/ ~p[1]
       THEN [ok |-> FALSE, val |-> EmptyMap]
       ELSE [ok |-> TRUE, val |-> MapInsert(acc, SubSeq(l, 1, i - 1), p[2])]

\* Accounts::load: the lines in order, stopping at the first bad one.
RECURSIVE LoadFrom(_, _)
LoadFrom(acc, lines) ==
    IF lines = <<>> THEN [ok |-> TRUE, val |-> acc]
    ELSE LET r == LoadLine(acc, Head(lines))
         IN IF r.ok THEN LoadFrom(r.val, Tail(lines)) ELSE r

Accounts_load(content) == LoadFrom(EmptyMap, content)

\* ------------------------------------------------------------- the state
Handles == {"A", "B"}

VARIABLES
    now,            \* the system clock
    file,           \* the file at the path: [exists, content, mtime]
    live,           \* live[h]: the handle h has been constructed and not yet consumed or dropped
    last_modified,  \* last_modified[h]: the field of the handle
    inner,          \* inner[h]: the field of the handle (the value held in memory)
    ret,            \* the latest call and what it returned
    main            \* position and locals of the client program driving the handles

vars == <<now, file, live, last_modified, inner, ret, main>>

\* The state of the path when no file is there.
NoFile == [exists |-> FALSE, content |-> <<>>, mtime |-> UNIX_EPOCH]

\* The ways one call can fail in the file system: the metadata query of
\* check_load, File::open, File::create, writing in save, the metadata
\* query of save.  A call meets at most one of them.  (A failure to read
\* in load leaves the same state as content that does not decode.)
Faults == {"none", "meta", "open", "create", "write", "stamp"}

\* What a call reports in ret.  op: the call; h: its handle; ok: Ok or
\* Err; val: the value the caller gets to see (the target of the Ref, the
\* value moved out, the value of the new handle); r: the closure's result;
\* loaded: the call opened the file for reading.
Report(op, h, ok, val, r, loaded) ==
    [op |-> op, h |-> h, ok |-> ok, val |-> val, r |-> r, loaded |-> loaded]
Failed(op, h, loaded) == Report(op, h, FALSE, EmptyMap, <<>>, loaded)

\* ------------------------------------------------------------ Cached<T>
\* Variants of the comparison: reversed, and not strict.
IsNewer_reversed(lm, mtime) == lm > mtime
IsNewer_orEqual(lm, mtime) == lm <= mtime

\* The comparison of check_load: the file is newer than what the handle knows.
IsNewer(lm, mtime) == lm < mtime

\* What check_load stores in the handle after a load.
Loaded(mtime, val) == [ok |-> TRUE, lm |-> mtime, val |-> val, loaded |-> TRUE]

\* Variant of check_load that takes a missing file for a failure.
check_load_NotFoundFails(lm, val, fault) ==
    LET same(ok, opened) == [ok |-> ok, lm |-> lm, val |-> val, loaded |-> opened]
    IN
    IF fault = "meta" \/ ~file.exists THEN same(FALSE, FALSE)
    ELSE IF IsNewer(lm, file.mtime)
         THEN IF fault = "open" THEN same(FALSE, FALSE)
              ELSE LET l == Accounts_load(file.content)
                   IN IF ~l.ok THEN same(FALSE, TRUE)
                      ELSE Loaded(file.mtime, l.val)
         ELSE same(TRUE, FALSE)

\* Variant of check_load that stores the file's time before it loads.
check_load_stampsFirst(lm, val, fault) ==
    LET same(ok, opened) == [ok |-> ok, lm |-> lm, val |-> val, loaded |-> opened]
    IN
    IF fault = "meta" THEN same(FALSE, FALSE)
    ELSE IF ~file.exists THEN same(TRUE, FALSE)
    ELSE IF IsNewer(lm, file.mtime)
         THEN IF fault = "open" THEN [same(FALSE, FALSE) EXCEPT !.lm = file.mtime]
              ELSE LET l == Accounts_load(file.content)
                   IN IF ~l.ok THEN [same(FALSE, TRUE) EXCEPT !.lm = file.mtime]
                      ELSE Loaded(file.mtime, l.val)
         ELSE same(TRUE, FALSE)

\* Cached::check_load on a handle whose fields are lm and val: the outcome
\* ok and the fields afterwards.
check_load(lm, val, fault) ==
    LET same(ok, opened) == [ok |-> ok, lm |-> lm, val |-> val, loaded |-> opened]
    IN
    IF fault = "meta" THEN same(FALSE, FALSE)
    ELSE IF ~file.exists THEN same(TRUE, FALSE)
    ELSE IF IsNewer(lm, file.mtime)
         THEN IF fault = "open" THEN same(FALSE, FALSE)
              ELSE LET l == Accounts_load(file.content)
                   IN IF ~l.ok THEN same(FALSE, TRUE)
                      ELSE Loaded(file.mtime, l.val)
         ELSE same(TRUE, FALSE)

\* The file right after File::create: created or truncated, stamped by the clock.
Created == [exists |-> TRUE, content |-> <<>>, mtime |-> now]

\* The file after content was written into it.
Written(content) == [Created EXCEPT !.content = content]

\* What a write of enc that fails leaves in the file: the first cut lines
\* and, when torn, the start of the line after them, up to its colon.
Partial(enc, cut, torn) ==
    IF torn THEN Append(SubSeq(enc, 1, cut), SubSeq(enc[cut + 1], 1, RFind(enc[cut + 1]) - 1))
    ELSE SubSeq(enc, 1, cut)

\* What save stores in last_modified: the modification time of the file
\* it has just written, queried after the write.
Stamp(f) == f.mtime

\* Variant of save that leaves last_modified as it was.
save_nostamp(lm, val, fault, enc, cut, torn) ==
    IF fault = "create" THEN [ok |-> FALSE, lm |-> lm, file |-> file]
    ELSE IF fault = "write" /\ enc # <<>>
         THEN [ok |-> FALSE, lm |-> lm, file |-> Written(Partial(enc, cut, torn))]
    ELSE IF fault = "stamp" THEN [ok |-> FALSE, lm |-> lm, file |-> Written(enc)]
    ELSE [ok |-> TRUE, lm |-> lm, file |-> Written(enc)]

\* Variant of save that stamps the handle although the write failed.
save_stampsOnFailure(lm, val, fault, enc, cut, torn) ==
    IF fault = "create" THEN [ok |-> FALSE, lm |-> lm, file |-> file]
    ELSE IF fault = "write" /\ enc # <<>>
         THEN [ok |-> FALSE, lm |-> Stamp(Written(enc)),
               file |-> Written(Partial(enc, cut, torn))]
    ELSE IF fault = "stamp" THEN [ok |-> FALSE, lm |-> lm, file |-> Written(enc)]
    ELSE [ok |-> TRUE, lm |-> Stamp(Written(enc)), file |-> Written(enc)]

\* Cached::save on a handle whose fields are lm and val, the codec writing
\* enc: the outcome ok, last_modified and the file afterwards.
save(lm, val, fault, enc, cut, torn) ==
    IF fault = "create" THEN [ok |-> FALSE, lm |-> lm, file |-> file]
    ELSE IF fault = "write" /\ enc # <<>>
         THEN [ok |-> FALSE, lm |-> lm, file |-> Written(Partial(enc, cut, torn))]
    ELSE IF fault = "stamp" THEN [ok |-> FALSE, lm |-> lm, file |-> Written(enc)]
    ELSE [ok |-> TRUE, lm |-> Stamp(Written(enc)), file |-> Written(enc)]

\* The closures the client passes to do_mut: the insertion of the example
\* and one that leaves the value as it is.
Keep == [kind |-> "keep", name |-> <<>>, bal |-> 0]
Closures == {[kind |-> "insert", name |-> <<"test">>, bal |-> -40], Keep}

\* The value after the closure ran on val, and what the closure returned.
Apply(f, val) ==
    IF f.kind = "insert"
    THEN [val |-> MapInsert(val, f.name, f.bal), r |-> OldEntry(val, f.name)]
    ELSE [val |-> val, r |-> <<>>]

\* Variant of new_with that starts last_modified at the current time.
new_with_now(h, default, fault) ==
    /\ ~live[h]
    /\ LET c == check_load(now, default, fault)
       IN /\ live' = [live EXCEPT ![h] = c.ok]
          /\ last_modified' = [last_modified EXCEPT ![h] = IF c.ok THEN c.lm ELSE UNIX_EPOCH]
          /\ inner' = [inner EXCEPT ![h] = IF c.ok THEN c.val ELSE EmptyMap]
          /\ ret' = IF c.ok THEN Report("new", h, TRUE, c.val, <<>>, c.loaded)
                    ELSE Failed("new", h, c.loaded)
    /\ UNCHANGED <<now, file>>

\* Variant of new_with that creates the file when there is none.
new_with_creates(h, default, fault) ==
    /\ ~live[h]
    /\ LET c == check_load(UNIX_EPOCH, default, fault)
       IN /\ live' = [live EXCEPT ![h] = c.ok]
          /\ last_modified' = [last_modified EXCEPT ![h] = IF c.ok THEN c.lm ELSE UNIX_EPOCH]
          /\ inner' = [inner EXCEPT ![h] = IF c.ok THEN c.val ELSE EmptyMap]
          /\ ret' = IF c.ok THEN Report("new", h, TRUE, c.val, <<>>, c.loaded)
                    ELSE Failed("new", h, c.loaded)
    /\ file' = IF file.exists THEN file ELSE Created
    /\ UNCHANGED now

\* Cached::new_with(default, path), and Cached::new with T::default().
new_with(h, default, fault) ==
    /\ ~live[h]
    /\ LET c == check_load(UNIX_EPOCH, default, fault)
       IN /\ live' = [live EXCEPT ![h] = c.ok]
          /\ last_modified' = [last_modified EXCEPT ![h] = IF c.ok THEN c.lm ELSE UNIX_EPOCH]
          /\ inner' = [inner EXCEPT ![h] = IF c.ok THEN c.val ELSE EmptyMap]
          /\ ret' = IF c.ok THEN Report("new", h, TRUE, c.val, <<>>, c.loaded)
                    ELSE Failed("new", h, c.loaded)
    /\ UNCHANGED <<now, file>>

\* Cached::get.
get(h, fault) ==
    /\ live[h]
    /\ LET c == check_load(last_modified[h], inner[h], fault)
       IN /\ last_modified' = [last_modified EXCEPT ![h] = c.lm]
          /\ inner' = [inner EXCEPT ![h] = c.val]
          /\ ret' = IF c.ok THEN Report("get", h, TRUE, c.val, <<>>, c.loaded)
                    ELSE Failed("get", h, c.loaded)
    /\ UNCHANGED <<now, file, live>>

\* Variant of do_mut that skips the check of the file before the closure.
do_mut_nocheck(h, f, fault, cut, torn) ==
    /\ live[h]
    /\ LET a == Apply(f, inner[h])
       IN \E enc \in Accounts_save(a.val) :
            /\ IF fault = "write" /\ enc # <<>>
               THEN cut < Len(enc)
               ELSE cut = 0 /\ ~torn
            /\ LET s == save(last_modified[h], a.val, fault, enc, cut, torn)
               IN /\ last_modified' = [last_modified EXCEPT ![h] = s.lm]
                  /\ inner' = [inner EXCEPT ![h] = a.val]
                  /\ file' = s.file
                  /\ ret' = IF s.ok
                            THEN Report("do_mut", h, TRUE, a.val, a.r, FALSE)
                            ELSE Failed("do_mut", h, FALSE)
    /\ UNCHANGED <<now, live>>

\* Variant of do_mut that runs the closure before it checks the file.
do_mut_closureFirst(h, f, fault, cut, torn) ==
    /\ live[h]
    /\ LET a == Apply(f, inner[h])
           c == check_load(last_modified[h], a.val, fault)
       IN IF ~c.ok
          THEN /\ last_modified' = [last_modified EXCEPT ![h] = c.lm]
               /\ inner' = [inner EXCEPT ![h] = c.val]
               /\ ret' = Failed("do_mut", h, c.loaded)
               /\ file' = file
          ELSE \E enc \in Accounts_save(c.val) :
                 /\ IF fault = "write" /\ enc # <<>>
                    THEN cut < Len(enc)
                    ELSE cut = 0 /\ ~torn
                 /\ LET s == save(c.lm, c.val, fault, enc, cut, torn)
                    IN /\ last_modified' = [last_modified EXCEPT ![h] = s.lm]
                       /\ inner' = [inner EXCEPT ![h] = c.val]
                       /\ file' = s.file
                       /\ ret' = IF s.ok
                                 THEN Report("do_mut", h, TRUE, c.val, a.r, c.loaded)
                                 ELSE Failed("do_mut", h, c.loaded)
    /\ UNCHANGED <<now, live>>

\* Variant of do_mut that goes on to the closure and the save although
\* the check of the file failed.
do_mut_ignoresCheck(h, f, fault, cut, torn) ==
    /\ live[h]
    /\ LET c == check_load(last_modified[h], inner[h], fault)
           a == Apply(f, c.val)
       IN \E enc \in Accounts_save(a.val) :
            /\ IF fault = "write" /\ enc # <<>>
               THEN cut < Len(enc)
               ELSE cut = 0 /\ ~torn
            /\ LET s == save(c.lm, a.val, fault, enc, cut, torn)
               IN /\ last_modified' = [last_modified EXCEPT ![h] = s.lm]
                  /\ inner' = [inner EXCEPT ![h] = a.val]
                  /\ file' = s.file
                  /\ ret' = IF s.ok /\ c.ok
                            THEN Report("do_mut", h, TRUE, a.val, a.r, c.loaded)
                            ELSE Failed("do_mut", h, c.loaded)
    /\ UNCHANGED <<now, live>>

\* Cached::do_mut(f).
do_mut(h, f, fault, cut, torn) ==
    /\ live[h]
    /\ LET c == check_load(last_modified[h], inner[h], fault)
       IN IF ~c.ok
          THEN /\ last_modified' = [last_modified EXCEPT ![h] = c.lm]
               /\ inner' = [inner EXCEPT ![h] = c.val]
               /\ ret' = Failed("do_mut", h, c.loaded)
               /\ file' = file
          ELSE LET a == Apply(f, c.val)
               IN \E enc \in Accounts_save(a.val) :
                    /\ IF fault = "write" /\ enc # <<>>
                       THEN cut < Len(enc)
                       ELSE cut = 0 /\ ~torn
                    /\ LET s == save(c.lm, a.val, fault, enc, cut, torn)
                       IN /\ last_modified' = [last_modified EXCEPT ![h] = s.lm]
                          /\ inner' = [inner EXCEPT ![h] = a.val]
                          /\ file' = s.file
                          /\ ret' = IF s.ok
                                    THEN Report("do_mut", h, TRUE, a.val, a.r, c.loaded)
                                    ELSE Failed("do_mut", h, c.loaded)
    /\ UNCHANGED <<now, live>>

\* The first statement of do_mut on its own: self.check_load()?.
do_mut_check(h, fault) ==
    /\ live[h]
    /\ LET c == check_load(last_modified[h], inner[h], fault)
       IN /\ last_modified' = [last_modified EXCEPT ![h] = c.lm]
          /\ inner' = [inner EXCEPT ![h] = c.val]
          /\ ret' = IF c.ok THEN Report("do_mut_check", h, TRUE, c.val, <<>>, c.loaded)
                    ELSE Failed("do_mut", h, c.loaded)
    /\ UNCHANGED <<now, file, live>>

\* Variant of the rest of do_mut that checks the file once more before it
\* runs the closure.
do_mut_apply_save_rechecks(h, f, fault, cut, torn) ==
    do_mut(h, f, fault, cut, torn)

\* The rest of do_mut after its check succeeded: the closure on the value
\* in memory, then self.save()?, then Ok with the closure's result.
do_mut_apply_save(h, f, fault, cut, torn) ==
    /\ live[h]
    /\ LET a == Apply(f, inner[h])
       IN \E enc \in Accounts_save(a.val) :
            /\ IF fault = "write" /\ enc # <<>>
               THEN cut < Len(enc)
               ELSE cut = 0 /\ ~torn
            /\ LET s == save(last_modified[h], a.val, fault, enc, cut, torn)
               IN /\ last_modified' = [last_modified EXCEPT ![h] = s.lm]
                  /\ inner' = [inner EXCEPT ![h] = a.val]
                  /\ file' = s.file
                  /\ ret' = IF s.ok
                            THEN Report("do_mut", h, TRUE, a.val, a.r, FALSE)
                            ELSE Failed("do_mut", h, FALSE)
    /\ UNCHANGED <<now, live>>

\* The fields of a handle that is gone.
Gone(h) ==
    /\ live' = [live EXCEPT ![h] = FALSE]
    /\ last_modified' = [last_modified EXCEPT ![h] = UNIX_EPOCH]
    /\ inner' = [inner EXCEPT ![h] = EmptyMap]

\* Variant of into_inner that checks the file first, as get does.
into_inner_checked(h) ==
    /\ live[h]
    /\ Gone(h)
    /\ LET c == check_load(last_modified[h], inner[h], "none")
       IN ret' = Report("into_inner", h, TRUE, c.val, <<>>, c.loaded)
    /\ UNCHANGED <<now, file>>

\* Cached::into_inner.
into_inner(h) ==
    /\ live[h]
    /\ Gone(h)
    /\ ret' = Report("into_inner", h, TRUE, inner[h], <<>>, FALSE)
    /\ UNCHANGED <<now, file>>

\* The handle goes out of scope.  Cached has no Drop implementation: its
\* fields are freed and nothing else happens.  ret.val notes the value the
\* handle held last.
drop(h) ==
    /\ live[h]
    /\ Gone(h)
    /\ ret' = Report("drop", h, TRUE, inner[h], <<>>, FALSE)
    /\ UNCHANGED <<now, file>>

\* ------------------------------------------------------ the environment
\* The contents another program writes: an empty file, a file as save
\* writes it, a line with padding and a signed number, one key twice, a
\* line without a colon, a balance that is no number.
ExtContents ==
    {<<>>,
     <<<<"test", ":", "7">>>>,
     <<<<" ", "test", ":", "+7", " ">>>>,
     <<<<"test", ":", "-40">>, <<"test", ":", "7">>>>,
     <<<<"test">>>>,
     <<<<"test", ":", "x">>>>}

NoCall == Report("ext", "A", TRUE, EmptyMap, <<>>, FALSE)

\* Another program replaces the content of the file.
ExtWrite(content) ==
    /\ file' = Written(content)
    /\ ret' = NoCall
    /\ UNCHANGED <<now, live, last_modified, inner>>

\* Another program sets the modification time of the file (utimes).
ExtTouch(t) ==
    /\ file.exists
    /\ file' = [file EXCEPT !.mtime = t]
    /\ ret' = NoCall
    /\ UNCHANGED <<now, live, last_modified, inner>>

\* Another program removes the file.
ExtRemove ==
    /\ file.exists
    /\ file' = NoFile
    /\ ret' = NoCall
    /\ UNCHANGED <<now, live, last_modified, inner>>

\* The system clock advances.
Tick ==
    /\ now < MaxTime
    /\ now' = now + 1
    /\ UNCHANGED <<file, live, last_modified, inner, ret>>

\* ------------------------------------------------------- specification
Init ==
    /\ now = UNIX_EPOCH + 1
    /\ file = NoFile
    /\ live = [h \in Handles |-> FALSE]
    /\ last_modified = [h \in Handles |-> UNIX_EPOCH]
    /\ inner = [h \in Handles |-> EmptyMap]
    /\ ret = Report("init", "A", TRUE, EmptyMap, <<>>, FALSE)
    /\ main = [pc |-> "any", v |-> EmptyMap, absent |-> FALSE, faulted |-> FALSE]

\* The values the client constructs a handle with: T::default() and another.
Defaults == {EmptyMap, [n \in {<<"test">>} |-> 7]}

\* The failures a call that only reads can meet.
ReadFaults == {"none", "meta", "open"}

\* The lines a failing write may have completed.
Cuts == 0..(Cardinality(Names) - 1)

\* Any client: every call on every handle, in any order.
Next ==
    \/ \E h \in Handles, d \in Defaults, fault \in ReadFaults :
          new_with(h, d, fault) /\ UNCHANGED main
    \/ \E h \in Handles, fault \in ReadFaults :
          get(h, fault) /\ UNCHANGED main
    \/ \E h \in Handles, f \in Closures, fault \in Faults, cut \in Cuts, torn \in BOOLEAN :
          do_mut(h, f, fault, cut, torn) /\ UNCHANGED main
    \/ \E h \in Handles : into_inner(h) /\ UNCHANGED main
    \/ \E h \in Handles : drop(h) /\ UNCHANGED main
    \/ \E c \in ExtContents : ExtWrite(c) /\ UNCHANGED main
    \/ \E t \in Times : ExtTouch(t) /\ UNCHANGED main
    \/ ExtRemove /\ UNCHANGED main
    \/ Tick /\ UNCHANGED main

Spec == Init /\ [][Next]_vars

\* The calls of one process that holds one handle, with the other programs
\* that write the file.
NextSolo ==
    \/ \E d \in Defaults, fault \in ReadFaults :
          new_with("A", d, fault) /\ UNCHANGED main
    \/ \E fault \in ReadFaults :
          get("A", fault) /\ UNCHANGED main
    \/ \E f \in Closures, fault \in Faults, cut \in Cuts, torn \in BOOLEAN :
          do_mut("A", f, fault, cut, torn) /\ UNCHANGED main
    \/ into_inner("A") /\ UNCHANGED main
    \/ drop("A") /\ UNCHANGED main
    \/ \E c \in ExtContents : ExtWrite(c) /\ UNCHANGED main
    \/ \E t \in Times : ExtTouch(t) /\ UNCHANGED main
    \/ ExtRemove /\ UNCHANGED main
    \/ Tick /\ UNCHANGED main

SpecSolo == Init /\ [][NextSolo]_vars

\* ------------------------------------------------- a round-trip client
\* A client that constructs a handle with the default main.v at a path
\* in any state, persists it with a do_mut that keeps the value, constructs
\* a second handle at the path and reads it.  It stops at the first error.
FileStates ==
    {NoFile} \cup {[exists |-> TRUE, content |-> c, mtime |-> t] : c \in ExtContents, t \in Times}

InitRoundTrip ==
    /\ now = UNIX_EPOCH + 1
    /\ file \in FileStates
    /\ live = [h \in Handles |-> FALSE]
    /\ last_modified = [h \in Handles |-> UNIX_EPOCH]
    /\ inner = [h \in Handles |-> EmptyMap]
    /\ ret = Report("init", "A", TRUE, EmptyMap, <<>>, FALSE)
    /\ \E v \in Accounts :
         main = [pc |-> "new", v |-> v, absent |-> ~file.exists, faulted |-> FALSE]

\* The client moves on to pc next if the call succeeded; faulted notes
\* that a file system failure was met.
Step(next, fault) ==
    main' = [main EXCEPT !.pc = IF ret'.ok THEN next ELSE "failed",
                         !.faulted = @ \/ fault # "none"]

RT_New ==
    /\ main.pc = "new"
    /\ \E fault \in ReadFaults : new_with("A", main.v, fault) /\ Step("persist", fault)

RT_Persist ==
    /\ main.pc = "persist"
    /\ \E fault \in Faults, cut \in Cuts, torn \in BOOLEAN :
         do_mut("A", Keep, fault, cut, torn) /\ Step("fresh", fault)

RT_Fresh ==
    /\ main.pc = "fresh"
    /\ \E d \in Defaults, fault \in ReadFaults :
         new_with("B", d, fault) /\ Step("read", fault)

RT_Read ==
    /\ main.pc = "read"
    /\ \E fault \in ReadFaults : get("B", fault) /\ Step("done", fault)

RT_Tick == Tick /\ UNCHANGED main

NextRoundTrip == RT_New \/ RT_Persist \/ RT_Fresh \/ RT_Read \/ RT_Tick

SpecRoundTrip == InitRoundTrip /\ [][NextRoundTrip]_vars

\* ------------------------------------------------- two racing handles
\* Two processes hold a handle each on the one path and call do_mut with
\* the closures main.fa and main.fb.  A's check runs first, then all of
\* B's do_mut, then the rest of A's do_mut; B reads afterwards.  Either
\* process stops at its first error.
SaveFaults == {"none", "create", "write", "stamp"}
RaceClosures == Closures \cup {[kind |-> "insert", name |-> <<"test">>, bal |-> 7]}

InitRace ==
    /\ now = UNIX_EPOCH + 1
    /\ file \in FileStates
    /\ live = [h \in Handles |-> FALSE]
    /\ last_modified = [h \in Handles |-> UNIX_EPOCH]
    /\ inner = [h \in Handles |-> EmptyMap]
    /\ ret = Report("init", "A", TRUE, EmptyMap, <<>>, FALSE)
    /\ \E fa \in RaceClosures, fb \in RaceClosures :
         main = [pc |-> "newA", fa |-> fa, fb |-> fb, faulted |-> FALSE]

Race_NewA ==
    /\ main.pc = "newA"
    /\ \E d \in Defaults, fault \in ReadFaults :
         new_with("A", d, fault) /\ Step("newB", fault)

Race_NewB ==
    /\ main.pc = "newB"
    /\ \E d \in Defaults, fault \in ReadFaults :
         new_with("B", d, fault) /\ Step("checkA", fault)

Race_CheckA ==
    /\ main.pc = "checkA"
    /\ \E fault \in ReadFaults : do_mut_check("A", fault) /\ Step("mutB", fault)

Race_MutB ==
    /\ main.pc = "mutB"
    /\ \E fault \in Faults, cut \in Cuts, torn \in BOOLEAN :
         do_mut("B", main.fb, fault, cut, torn) /\ Step("finishA", fault)

Race_FinishA ==
    /\ main.pc = "finishA"
    /\ \E fault \in SaveFaults, cut \in Cuts, torn \in BOOLEAN :
         do_mut_apply_save("A", main.fa, fault, cut, torn) /\ Step("getB", fault)

Race_GetB ==
    /\ main.pc = "getB"
    /\ \E fault \in ReadFaults : get("B", fault) /\ Step("done", fault)

Race_Tick == Tick /\ UNCHANGED main

NextRace ==
    Race_NewA \/ Race_NewB \/ Race_CheckA \/ Race_MutB \/ Race_FinishA \/ Race_GetB
      \/ Race_Tick

SpecRace == InitRace /\ [][NextRace]_vars

\* ------------------------------------------ a client whose persist fails
\* A client constructs a handle at a path in any state and calls do_mut
\* until one fails in save after File::create succeeded (pc "broken"); the
\* next call on the handle is a get or a do_mut.  A failure anywhere else
\* ends the client.
TruncatedFaults == {"write", "stamp"}

InitFailedPersist ==
    /\ now = UNIX_EPOCH + 1
    /\ file \in FileStates
    /\ live = [h \in Handles |-> FALSE]
    /\ last_modified = [h \in Handles |-> UNIX_EPOCH]
    /\ inner = [h \in Handles |-> EmptyMap]
    /\ ret = Report("init", "A", TRUE, EmptyMap, <<>>, FALSE)
    /\ main = [pc |-> "new"]

FP_New ==
    /\ main.pc = "new"
    /\ \E d \in Defaults, fault \in ReadFaults : new_with("A", d, fault)
    /\ main' = [pc |-> IF ret'.ok THEN "mut" ELSE "failed"]

FP_Mut ==
    /\ main.pc = "mut"
    /\ \E f \in Closures, fault \in Faults, cut \in Cuts, torn \in BOOLEAN :
         /\ do_mut("A", f, fault, cut, torn)
         /\ main' = [pc |-> IF ret'.ok THEN "mut"
                            ELSE IF /\ fault \in TruncatedFaults
                                    /\ check_load(last_modified["A"], inner["A"], fault).ok
                                 THEN "broken"
                                 ELSE "failed"]

FP_Get ==
    /\ main.pc = "broken"
    /\ \E fault \in ReadFaults : get("A", fault)
    /\ main' = [pc |-> "after"]

FP_MutAgain ==
    /\ main.pc = "broken"
    /\ \E f \in Closures, fault \in Faults, cut \in Cuts, torn \in BOOLEAN :
         do_mut("A", f, fault, cut, torn)
    /\ main' = [pc |-> "after"]

FP_Tick == Tick /\ UNCHANGED main

NextFailedPersist == FP_New \/ FP_Mut \/ FP_Get \/ FP_MutAgain \/ FP_Tick

SpecFailedPersist == InitFailedPersist /\ [][NextFailedPersist]_vars

\* ---------------------------------------------------------------- claims
\* The value the file decodes to, and whether it decodes.
OnDisk == Accounts_load(file.content)

\* C1: if the file exists and its modification time is strictly newer than
\* last_modified of a handle, a get on the handle that succeeds returns the
\* value decoded from the content of the file and sets last_modified to
\* the modification time of the file; a do_mut that succeeds runs its
\* closure on that decoded value.
C1_StalenessRefresh ==
    [][\A h \in Handles :
         (live[h] /\ file.exists /\ last_modified[h] < file.mtime) =>
           /\ \A fault \in ReadFaults :
                (get(h, fault) /\ ret'.ok) =>
                  /\ OnDisk.ok
                  /\ ret'.val = OnDisk.val
                  /\ inner'[h] = OnDisk.val
                  /\ last_modified'[h] = file.mtime
                  /\ ret'.loaded
           /\ (ret'.op = "do_mut" /\ ret'.ok) =>
                \A f \in Closures, fault \in Faults, cut \in Cuts, torn \in BOOLEAN :
                  do_mut(h, f, fault, cut, torn) =>
                  /\ OnDisk.ok
                  /\ inner'[h] = Apply(f, OnDisk.val).val
                  /\ ret'.r = Apply(f, OnDisk.val).r
                  /\ ret'.loaded
      ]_vars

\* A get has just replaced a value held in memory by the different value it
\* decoded from a file written after the handle was constructed.
C1_Witness ==
    /\ ret.op = "get" /\ ret.ok /\ ret.loaded
    /\ ret.val = [n \in {<<"test">>} |-> 7]
    /\ inner[ret.h] = OnDisk.val
    /\ last_modified[ret.h] = file.mtime
    /\ last_modified[ret.h] > UNIX_EPOCH + 1

\* C2: while no file exists at the path, new_with succeeds with the default
\* as the value and get succeeds with the value held in memory; neither
\* reads the file nor changes last_modified.  (The metadata query answers
\* NotFound: it does not fail for another reason.)
C2_MissingFileIsNoError ==
    [][\A h \in Handles, fault \in ReadFaults \ {"meta"} :
         ~file.exists =>
           /\ \A d \in Defaults :
                new_with(h, d, fault) =>
                  /\ ret'.ok /\ live'[h] /\ ~ret'.loaded
                  /\ ret'.val = d /\ inner'[h] = d
                  /\ last_modified'[h] = UNIX_EPOCH
           /\ get(h, fault) =>
                /\ ret'.ok /\ ~ret'.loaded
                /\ ret'.val = inner[h]
                /\ inner' = inner /\ last_modified' = last_modified
      ]_vars

\* A get has succeeded on a handle that holds a value and a last_modified
\* from an earlier file, while no file exists.
C2_Witness ==
    /\ ~file.exists
    /\ ret.op = "get" /\ ret.ok /\ ~ret.loaded
    /\ ret.val # EmptyMap
    /\ last_modified[ret.h] > UNIX_EPOCH

\* C3: whenever the file exists and decodes when a handle is constructed,
\* the handle new_with returns holds the decoded content, whatever the
\* modification time of the file.
C3_FirstAccessLoads ==
    (ret.op = "new" /\ ret.ok /\ file.exists /\ OnDisk.ok) => ret.val = OnDisk.val

\* C4: for all values v and paths p, constructing a handle at p with
\* default v, persisting it with a do_mut that keeps the value and then
\* constructing a fresh handle at p yields a handle whose get returns v.
C4_RoundTrip == main.pc = "done" => ret.val = main.v

\* save and load of the codec are inverse on v.
LoadInvertsSave(v) ==
    \A enc \in Accounts_save(v) : Accounts_load(enc) = [ok |-> TRUE, val |-> v]

\* C4, amended: the same when no file exists at p as the first handle is
\* constructed: the fresh handle's get returns v, and no call fails unless
\* the file system does.
C4_RoundTripFromAbsentFile ==
    (main.absent /\ LoadInvertsSave(main.v)) =>
      /\ main.pc = "done" => ret.val = main.v
      /\ main.pc = "failed" => main.faulted

\* The round trip has gone through for a value that is neither default of
\* the second handle.
C4_Witness ==
    /\ main.absent /\ main.pc = "done" /\ ~main.faulted
    /\ main.v = [n \in {<<"test">>} |-> -40]
    /\ ret.op = "get" /\ ret.h = "B" /\ ret.val = main.v

\* C5: with two live handles on the path, after a do_mut of one that
\* succeeds, the next get of the other that succeeds returns the value the
\* do_mut persisted, whatever the other handle's last_modified is.
C5_CrossHandleVisibility ==
    [][\A h \in Handles, fault \in ReadFaults :
         (ret.op = "do_mut" /\ ret.ok /\ ret.h # h /\ live[ret.h]
            /\ get(h, fault) /\ ret'.ok)
         => ret'.val = ret.val
      ]_vars

\* C5, amended: the get of the other handle returns the persisted value
\* provided the modification time the write left is strictly newer than
\* that handle's last_modified; otherwise it returns the value that handle
\* held before.
C5_VisibleWhenNewer ==
    [][\A h \in Handles, fault \in ReadFaults :
         (ret.op = "do_mut" /\ ret.ok /\ ret.h # h /\ live[ret.h]
            /\ get(h, fault) /\ ret'.ok)
         => IF last_modified[h] < file.mtime
            THEN ret'.val = ret.val /\ inner'[h] = inner[ret.h]
            ELSE ret'.val = inner[h]
      ]_vars

\* A get has loaded the inserted balance that the other handle, still
\* live, had persisted.
C5_Witness ==
    /\ ret.op = "get" /\ ret.ok /\ ret.loaded
    /\ \A h \in Handles : live[h] /\ inner[h] = [n \in {<<"test">>} |-> -40]
    /\ \E h \in Handles : h # ret.h /\ last_modified[h] = file.mtime
    /\ last_modified[ret.h] = file.mtime

\* C6: if the file exists and its modification time is not strictly newer
\* than last_modified, get does not open the file, changes neither the
\* value nor last_modified and returns the value held in memory.
C6_NoRereadWhenNotNewer ==
    [][\A h \in Handles, fault \in ReadFaults \ {"meta"} :
         (live[h] /\ file.exists /\ ~(last_modified[h] < file.mtime) /\ get(h, fault))
         => /\ ret'.ok /\ ~ret'.loaded
            /\ ret'.val = inner[h]
            /\ inner' = inner /\ last_modified' = last_modified
      ]_vars

\* A get has returned the value in memory while the file, no newer than
\* last_modified, decodes to another value.
C6_Witness ==
    /\ ret.op = "get" /\ ret.ok /\ ~ret.loaded
    /\ file.exists /\ OnDisk.ok /\ OnDisk.val # ret.val
    /\ last_modified[ret.h] >= file.mtime
    /\ ret.val = inner[ret.h]

\* C7: after every do_mut that succeeds, last_modified is the modification
\* time of the file just written; a get that follows with no write in
\* between does not load and returns the mutated value.
C7_WriteThenStamp ==
    [][/\ (ret'.op = "do_mut" /\ ret'.ok) => last_modified'[ret'.h] = file'.mtime
       /\ \A h \in Handles, fault \in ReadFaults \ {"meta"} :
            (ret.op = "do_mut" /\ ret.ok /\ ret.h = h /\ get(h, fault))
            => ret'.ok /\ ~ret'.loaded /\ ret'.val = ret.val
      ]_vars

\* A do_mut has loaded a newer file, inserted a balance, written the file
\* after the clock had advanced, and stamped the handle with its time.
C7_Witness ==
    /\ ret.op = "do_mut" /\ ret.ok /\ ret.loaded
    /\ ret.val = [n \in {<<"test">>} |-> -40]
    /\ OnDisk.val = ret.val
    /\ last_modified[ret.h] = file.mtime /\ file.mtime > UNIX_EPOCH + 1

\* The value a handle holds once check_load has succeeded on it.
Checked(h) ==
    IF file.exists /\ last_modified[h] < file.mtime THEN OnDisk.val ELSE inner[h]

\* C8: when do_mut(f) returns Ok(r), r is what f returned, the value in
\* memory is f applied to the freshly checked value and the file decodes
\* to that value; a handle constructed at the path next reads it back.
C8_DoMutSuccess ==
    [][/\ (ret'.op = "do_mut" /\ ret'.ok) =>
            \A f \in Closures, fault \in Faults, cut \in Cuts, torn \in BOOLEAN :
              do_mut(ret'.h, f, fault, cut, torn) =>
                /\ ret'.r = Apply(f, Checked(ret'.h)).r
                /\ inner'[ret'.h] = Apply(f, Checked(ret'.h)).val
                /\ file'.exists
                /\ Accounts_load(file'.content) = [ok |-> TRUE, val |-> inner'[ret'.h]]
       /\ (ret.op = "do_mut" /\ ret.ok /\ ret'.op = "new") =>
            \A h \in Handles, d \in Defaults :
              new_with(h, d, "none") => ret'.ok /\ ret'.val = ret.val
      ]_vars

\* The example: the insertion of ("test", -40) into an empty map, with no
\* earlier entry to return; the file decodes to the map.
C8_Witness ==
    /\ ret.op = "do_mut" /\ ret.ok /\ ret.r = <<>>
    /\ ret.val = [n \in {<<"test">>} |-> -40]
    /\ inner[ret.h] = ret.val
    /\ file.exists /\ OnDisk = [ok |-> TRUE, val |-> ret.val]

\* C9: whenever a handle is dropped, the value is persisted, so that
\* afterwards the file decodes to the value the handle held last.
C9_DropPersists ==
    ret.op = "drop" => (file.exists /\ OnDisk = [ok |-> TRUE, val |-> ret.val])

\* C10: into_inner consumes the handle and returns the value held in
\* memory, with no check of the file and no write: the file is the same
\* after as before.
C10_IntoInnerFrame ==
    [][\A h \in Handles :
         (live[h] /\ ret'.op = "into_inner" /\ ret'.h = h /\ ~live'[h])
         => /\ ret'.ok /\ ret'.val = inner[h] /\ ~ret'.loaded
            /\ file' = file
      ]_vars

\* into_inner has returned a value a do_mut had produced, while the file,
\* written by another program since, decodes to another value.
C10_Witness ==
    /\ ret.op = "into_inner" /\ ~live[ret.h]
    /\ ret.val = [n \in {<<"test">>} |-> -40]
    /\ file.exists /\ OnDisk.ok /\ OnDisk.val = [n \in {<<"test">>} |-> 7]
    /\ file.mtime > UNIX_EPOCH + 1

\* C11: if the file exists and its content does not decode when a handle
\* is constructed, new_with fails and returns no handle.
C11_MalformedAtConstruction ==
    (ret.op = "new" /\ file.exists /\ ~OnDisk.ok) => (~ret.ok /\ ~live[ret.h])

\* The file is newer than last_modified of the handle, and the reload a
\* call with this fault attempts fails: the file cannot be opened or does
\* not decode.
ReloadFails(h, fault) ==
    /\ live[h] /\ file.exists /\ last_modified[h] < file.mtime
    /\ fault = "open" \/ ~OnDisk.ok

\* C12: if the check decides to reload and opening or decoding the file
\* fails, get and do_mut return the error and leave the value in memory
\* and last_modified as they were, so that the file is still newer for the
\* next call.
C12_FailedReloadKeepsState ==
    [][(ret'.op \in {"get", "do_mut"}) =>
         \A h \in {ret'.h}, fault \in Faults \ {"meta"} :
           ReloadFails(h, fault) =>
             /\ (ret'.op = "get" /\ fault \in ReadFaults /\ get(h, fault)) =>
                  /\ ~ret'.ok
                  /\ inner' = inner /\ last_modified' = last_modified
             /\ (ret'.op = "do_mut") =>
                  \A f \in Closures, cut \in Cuts, torn \in BOOLEAN :
                    do_mut(h, f, fault, cut, torn) =>
                      /\ ~ret'.ok
                      /\ inner' = inner /\ last_modified' = last_modified
      ]_vars

\* A get has failed to decode a newer file and the handle still holds the
\* value of an earlier load, with the file still newer than last_modified.
C12_Witness ==
    /\ ret.op = "get" /\ ~ret.ok /\ ret.loaded
    /\ live[ret.h] /\ inner[ret.h] = [n \in {<<"test">>} |-> 7]
    /\ file.exists /\ ~OnDisk.ok
    /\ UNIX_EPOCH < last_modified[ret.h] /\ last_modified[ret.h] < file.mtime

\* last_modified of a handle once check_load has succeeded on it.
CheckedTime(h) ==
    IF file.exists /\ last_modified[h] < file.mtime THEN file.mtime ELSE last_modified[h]

\* The failures of save, and the fact that check_load succeeds first.
PersistFaults == {"create", "write", "stamp"}
CheckSucceeds(h) ==
    live[h] /\ ((file.exists /\ last_modified[h] < file.mtime) => OnDisk.ok)

\* save with this fault fails on val: creating the file fails, the query
\* after the write fails, or the write fails (there is something to write).
SaveFails(val, fault) ==
    fault \in PersistFaults /\ (fault = "write" => Accounts_save(val) # {<<>>})

\* C13: if the persist of do_mut fails, do_mut returns the error,
\* last_modified is what the check left, the value in memory is the
\* transformed value, and the file is untouched if it could not be
\* created and created or truncated at the current time otherwise.
C13_FailedPersist ==
    [][(ret'.op = "do_mut") =>
         \A h \in {ret'.h}, f \in Closures, fault \in PersistFaults, cut \in Cuts,
            torn \in BOOLEAN :
           (CheckSucceeds(h) /\ SaveFails(Apply(f, Checked(h)).val, fault)
              /\ do_mut(h, f, fault, cut, torn)) =>
             /\ ~ret'.ok
             /\ inner'[h] = Apply(f, Checked(h)).val
             /\ last_modified'[h] = CheckedTime(h)
             /\ fault = "create" => file' = file
             /\ fault # "create" => file'.exists /\ file'.mtime = now
      ]_vars

\* A do_mut has inserted a balance in memory and failed while writing: the
\* file holds the start of a line, and last_modified is older than the file.
C13_Witness ==
    /\ ret.op = "do_mut" /\ ~ret.ok /\ ~ret.loaded
    /\ inner[ret.h] = [n \in {<<"test">>} |-> -40]
    /\ file.exists /\ file.content = <<<<"test">>>> /\ file.mtime = now
    /\ last_modified[ret.h] < file.mtime

\* C14: if another program has replaced the file with newer content that
\* decodes, do_mut(f) applies f to the value decoded from that content,
\* and after a do_mut that succeeds the file decodes to f of that value:
\* the update is not overwritten from the older value in memory.
C14_DoMutOrdering ==
    [][(ret.op = "ext" /\ ret'.op = "do_mut" /\ ret'.ok) =>
         \A h \in Handles, f \in Closures, fault \in Faults, cut \in Cuts, torn \in BOOLEAN :
           (file.exists /\ last_modified[h] < file.mtime /\ OnDisk.ok
              /\ do_mut(h, f, fault, cut, torn)) =>
             /\ ret'.r = Apply(f, OnDisk.val).r
             /\ ret'.val = Apply(f, OnDisk.val).val
             /\ Accounts_load(file'.content) = [ok |-> TRUE, val |-> Apply(f, OnDisk.val).val]
             /\ last_modified'[h] = file'.mtime
      ]_vars

\* A do_mut has loaded the balance 7 another program wrote, its insertion
\* has returned that balance as the entry it replaced, and the file holds
\* the inserted balance.
C14_Witness ==
    /\ ret.op = "do_mut" /\ ret.ok /\ ret.loaded
    /\ ret.r = <<7>>
    /\ ret.val = [n \in {<<"test">>} |-> -40]
    /\ file.exists /\ OnDisk = [ok |-> TRUE, val |-> ret.val]

\* The check at the start of a call with this fault fails: the metadata
\* query fails, or the reload does.
CheckFails(h, fault) ==
    live[h] /\ (fault = "meta" \/ ReloadFails(h, fault))

\* C15: if the check at the start of do_mut fails, do_mut returns the error
\* without running the closure and without creating, truncating or writing
\* the file; the value in memory and last_modified are unchanged.
C15_DoMutCheckFails ==
    [][(ret'.op = "do_mut") =>
         \A h \in {ret'.h}, fault \in Faults :
           CheckFails(h, fault) =>
             \A f \in Closures, cut \in Cuts, torn \in BOOLEAN :
               do_mut(h, f, fault, cut, torn) =>
                 /\ ~ret'.ok
                 /\ file' = file
                 /\ inner' = inner /\ last_modified' = last_modified
      ]_vars

\* A do_mut has failed on a newer file that does not decode: the handle
\* still holds an earlier value, without the insertion, and the file is as
\* the other program left it.
C15_Witness ==
    /\ ret.op = "do_mut" /\ ~ret.ok /\ ret.loaded
    /\ live[ret.h] /\ inner[ret.h] = [n \in {<<"test">>} |-> 7]
    /\ file.exists /\ file.content = <<<<"test", ":", "x">>>>
    /\ last_modified[ret.h] < file.mtime

\* C18: new/new_with and get, whether they succeed or fail, leave the
\* file's existence, content and modification time as they were; on an
\* absent file they do not create it, and of the handle's operations only
\* do_mut ever changes the file.
C18_ReadsNeverWrite ==
    [][/\ \A h \in Handles, fault \in ReadFaults :
            /\ get(h, fault) => file' = file
            /\ \A d \in Defaults : new_with(h, d, fault) => file' = file
       /\ (file' # file) => ret'.op \in {"do_mut", "ext"}
      ]_vars

\* A handle has just been constructed with a default on an absent file,
\* and the file is still absent.
C18_Witness ==
    /\ ret.op = "new" /\ ret.ok /\ ~ret.loaded
    /\ ret.val = [n \in {<<"test">>} |-> 7]
    /\ ~file.exists

\* C16: when A's check, then all of B's do_mut, then the rest of A's
\* do_mut run in this order and succeed, the file holds exactly an
\* encoding of A's closure applied to the value A had after its check,
\* whatever B wrote; B's value in memory is untouched by A's write, and a
\* get of B that succeeds afterwards replaces B's value with A's content
\* if A's write left a modification time strictly newer than B's
\* last_modified, and keeps B's own value otherwise.
C16_LastWriterWins ==
    [][/\ (main.pc = "finishA" /\ main'.pc = "getB") =>
            /\ file'.exists
            /\ file'.content \in Accounts_save(Apply(main.fa, inner["A"]).val)
            /\ Accounts_load(file'.content) =
                 [ok |-> TRUE, val |-> Apply(main.fa, inner["A"]).val]
            /\ inner'["A"] = Apply(main.fa, inner["A"]).val
            /\ inner'["B"] = inner["B"]
       /\ (main.pc = "getB" /\ main'.pc = "done") =>
            /\ OnDisk = [ok |-> TRUE, val |-> inner["A"]]
            /\ IF last_modified["B"] < file.mtime
               THEN ret'.loaded /\ ret'.val = inner["A"] /\ inner'["B"] = inner["A"]
               ELSE ~ret'.loaded /\ ret'.val = inner["B"] /\ inner'["B"] = inner["B"]
      ]_vars

\* B inserted the balance -40 and persisted it, A then persisted the empty
\* map it had checked before, and B's get has replaced B's value with the
\* empty map: the insertion is in neither the file nor B's memory.
C16_Witness ==
    /\ main.pc = "done" /\ ret.op = "get" /\ ret.h = "B" /\ ret.ok /\ ret.loaded
    /\ main.fb = [kind |-> "insert", name |-> <<"test">>, bal |-> -40]
    /\ main.fa = Keep
    /\ OnDisk = [ok |-> TRUE, val |-> EmptyMap]
    /\ inner["A"] = EmptyMap /\ inner["B"] = EmptyMap

\* C17 as claimed: after a do_mut whose save failed once the file had been
\* created, the file's modification time is newer than last_modified of
\* the handle, and the next get or do_mut on the handle reloads: it fails
\* on the decoding or replaces the value in memory with the file's.
C17_FailedPersistReloads ==
    [][(main.pc = "broken") =>
         /\ file.exists /\ last_modified["A"] < file.mtime
         /\ get("A", "none") =>
              /\ ret'.loaded
              /\ IF OnDisk.ok THEN ret'.ok /\ inner'["A"] = OnDisk.val
                 ELSE ~ret'.ok
         /\ \A f \in Closures, cut \in Cuts, torn \in BOOLEAN :
              do_mut("A", f, "none", cut, torn) =>
                /\ ret'.loaded
                /\ IF OnDisk.ok THEN ret'.ok /\ inner'["A"] = Apply(f, OnDisk.val).val
                   ELSE ~ret'.ok
      ]_vars

\* C17: after a do_mut whose save failed once the file had been created,
\* the file exists and last_modified of the handle is what the check left.
\* If the file's modification time is strictly newer than last_modified,
\* the next get or do_mut on the handle reloads: it fails on the decoding
\* with the value in memory unchanged, or replaces the value in memory
\* with the file's (do_mut then runs its closure on that).  If it is not
\* newer (the failed write fell in the clock tick of the handle's last
\* load or persist), the next call does not read the file and the
\* mutation stays in memory.
C17_FailedPersistThenNextCall ==
    [][(main.pc = "broken") =>
         /\ file.exists
         /\ get("A", "none") =>
              IF last_modified["A"] < file.mtime
              THEN /\ ret'.loaded
                   /\ IF OnDisk.ok
                      THEN /\ ret'.ok /\ inner'["A"] = OnDisk.val
                           /\ last_modified'["A"] = file.mtime
                      ELSE ~ret'.ok /\ inner' = inner /\ last_modified' = last_modified
              ELSE /\ ret'.ok /\ ~ret'.loaded
                   /\ inner' = inner /\ last_modified' = last_modified
         /\ \A f \in Closures, cut \in Cuts, torn \in BOOLEAN :
              do_mut("A", f, "none", cut, torn) =>
                IF last_modified["A"] < file.mtime
                THEN /\ ret'.loaded
                     /\ IF OnDisk.ok
                        THEN ret'.ok /\ inner'["A"] = Apply(f, OnDisk.val).val
                        ELSE ~ret'.ok /\ inner' = inner /\ last_modified' = last_modified
                ELSE /\ ret'.ok /\ ~ret'.loaded
                     /\ inner'["A"] = Apply(f, inner["A"]).val
      ]_vars

\* The insertion's save failed after a torn write in the clock tick of the
\* handle's last load; the get that followed did not read the file and
\* returned the value with the insertion, which the file does not hold.
C17_Witness ==
    /\ main.pc = "after" /\ ret.op = "get" /\ ret.ok /\ ~ret.loaded
    /\ ret.val = [n \in {<<"test">>} |-> -40]
    /\ inner["A"] = ret.val
    /\ file.exists /\ ~OnDisk.ok
    /\ last_modified["A"] = file.mtime
====
